---- MODULE Spec2Model ----
(***************************************************************************)
(* Model of the resume-scoring adjustment module (normalModeScoring) and   *)
(* of the job-fetch configuration service (ApifyService).                  *)
(*                                                                         *)
(* Optional values (undefined / null in the TypeScript source) are         *)
(* sequences of length at most one: << >> is "absent", <<v>> is "v".       *)
(***************************************************************************)
EXTENDS Integers, Sequences, FiniteSets, TLC

VARIABLES
    assessInput,        \* argument of assessInputQuality: [resumeText, resumeData]
    assessment,         \* << >> or <<InputQualityAssessment>> returned
    adjustInput,        \* arguments of calculateAdjustedScore
    adjustment,         \* << >> or <<ScoreAdjustment>> returned
    confInput,          \* arguments of calculateAlignedConfidence
    confidence,         \* << >> or <<[level, points]>> returned
    bandScore,          \* argument of getAlignedMatchBand / getAlignedInterviewProbability
    matchBand,          \* << >> or <<MatchBand>>
    interviewProbability, \* << >> or <<string>>
    tierScores,         \* argument of applyNormalizedWeights (the caller's object)
    candidateLevel,     \* argument of applyNormalizedWeights
    normalizedScores,   \* << >> or <<TierScores>> returned
    configs,            \* remote table job_fetch_configs: id -> << >> or <<row>>
    calls,              \* triggerManualSync invocations in flight or finished
    invocations,        \* remote function invocations received: sequence of [fn, call]
    logs,               \* remote table job_sync_logs: set of rows
    clock,              \* the store's created_at source
    stats,              \* << >> or <<result of getSyncStats>>
    returnedRows,       \* the rows of the last select('*'), in the order returned
    searchConfig,       \* argument of validateSearchConfig
    validation          \* << >> or <<[valid, errors]>>

scoringVars == <<assessInput, assessment, adjustInput, adjustment, confInput,
                 confidence, bandScore, matchBand, interviewProbability,
                 tierScores, candidateLevel, normalizedScores>>
serviceVars == <<configs, calls, invocations, logs, clock, stats, returnedRows,
                 searchConfig, validation>>
vars == <<scoringVars, serviceVars>>

None == << >>
Some(v) == <<v>>
IsSome(o) == o # << >>
Get(o) == o[1]

Min(a, b) == IF a <= b THEN a ELSE b
Max(a, b) == IF a >= b THEN a ELSE b

RECURSIVE SumSeq(_)
SumSeq(s) == IF s = << >> THEN 0 ELSE Head(s) + SumSeq(Tail(s))

Range(s) == {s[i] : i \in DOMAIN s}

(***************************************************************************)
(* INPUT QUALITY ASSESSMENT                                                *)
(*                                                                         *)
(* A resume text is modelled by its whitespace-separated tokens:           *)
(*   fill        the number of plain words that match no pattern,          *)
(*   marks       the set of distinguished tokens that occur in the text,   *)
(*   bulletLines the number of lines that start with a bullet glyph        *)
(*               followed by white space (the glyph is a token of its own).*)
(* Each regular expression of the source is the set of vocabulary tokens   *)
(* it matches.                                                             *)
(***************************************************************************)
Vocabulary ==
    {"EXPERIENCE", "PROFESSIONALEXPERIENCE", "EDUCATION", "SKILLS", "PROJECTS",
     "CERTIFICATIONS", "SUMMARY", "AWARDS", "RESEARCH", "LANGUAGES",
     "developed", "python", "javascript", "typescript", "bachelor",
     "jo@ex.io", "5551234567"}

Test(pattern, text) == (text.marks \cap pattern) # {}

\* /\b(EXPERIENCE|WORK\s*EXPERIENCE|EMPLOYMENT|PROFESSIONAL\s*EXPERIENCE)\b/i etc.
sectionPatterns ==
    << {"EXPERIENCE", "PROFESSIONALEXPERIENCE"},
       {"EDUCATION"},
       {"SKILLS"},
       {"PROJECTS"},
       {"CERTIFICATIONS"},
       {"SUMMARY"},
       {"AWARDS"},
       {"RESEARCH"},
       {"LANGUAGES"} >>

countSections(text) ==
    Cardinality({i \in DOMAIN sectionPatterns : Test(sectionPatterns[i], text)})

checkContactInfo(text) ==
    LET hasEmail == Test({"jo@ex.io"}, text)
        hasPhone == Test({"5551234567"}, text)
    IN  hasEmail \/ hasPhone

checkSkillsPresence(text, resumeData) ==
    IF IsSome(resumeData) /\ IsSome(Get(resumeData).skills)
          /\ Len(Get(Get(resumeData).skills)) > 0
    THEN \E i \in DOMAIN Get(Get(resumeData).skills) :
            LET s == Get(Get(resumeData).skills)[i]
            IN  IsSome(s.list) /\ Len(Get(s.list)) > 0
    ELSE LET hasSkillsSection == Test({"SKILLS"}, text)
             hasTechKeywords == Test({"python", "javascript"}, text)
         IN  hasSkillsSection \/ hasTechKeywords

checkEducationPresence(text, resumeData) ==
    IF IsSome(resumeData) /\ IsSome(Get(resumeData).education)
          /\ Len(Get(Get(resumeData).education)) > 0
    THEN TRUE
    ELSE LET hasEducationSection == Test({"EDUCATION"}, text)
             hasDegree == Test({"bachelor"}, text)
         IN  hasEducationSection \/ hasDegree

checkExperiencePresence(text, resumeData) ==
    IF IsSome(resumeData) /\ IsSome(Get(resumeData).workExperience)
          /\ Len(Get(Get(resumeData).workExperience)) > 0
    THEN \E i \in DOMAIN Get(Get(resumeData).workExperience) :
            LET exp == Get(Get(resumeData).workExperience)[i]
            IN  IsSome(exp.bullets) /\ Len(Get(exp.bullets)) > 0
    ELSE LET hasExperienceSection == Test({"EXPERIENCE"}, text)
             hasJobIndicators == Test({"developed"}, text)
         IN  hasExperienceSection /\ hasJobIndicators

checkProjectsPresence(text, resumeData) ==
    IF IsSome(resumeData) /\ IsSome(Get(resumeData).projects)
          /\ Len(Get(Get(resumeData).projects)) > 0
    THEN \E i \in DOMAIN Get(Get(resumeData).projects) :
            LET p == Get(Get(resumeData).projects)[i]
            IN  IsSome(p.bullets) /\ Len(Get(p.bullets)) > 0
    ELSE Test({"PROJECTS"}, text)

\* entries.reduce((sum, e) => sum + (e.bullets?.length || 0), 0)
BulletSum(entries) ==
    SumSeq([i \in DOMAIN entries |->
              IF IsSome(entries[i].bullets) THEN Len(Get(entries[i].bullets)) ELSE 0])

countBulletPoints(text, resumeData) ==
    LET fromExperience ==
            IF IsSome(resumeData) /\ IsSome(Get(resumeData).workExperience)
            THEN BulletSum(Get(Get(resumeData).workExperience)) ELSE 0
        fromProjects ==
            IF IsSome(resumeData) /\ IsSome(Get(resumeData).projects)
            THEN BulletSum(Get(Get(resumeData).projects)) ELSE 0
        count == fromExperience + fromProjects
        textBullets == text.bulletLines
    IN  Max(count, textBullets)

\* String.prototype.toLowerCase on the skill names the model uses.
toLowerCase(s) ==
    CASE s = "Python" -> "python"
      [] s = "JAVA" -> "java"
      [] s = "React" -> "react"
      [] OTHER -> s

\* The entries of techSkills that occur as substrings of a (lower-cased) token.
TokenSkills(tok) ==
    CASE tok = "python" -> {"python"}
      [] tok = "javascript" -> {"javascript", "java"}
      [] tok = "typescript" -> {"typescript"}
      [] OTHER -> {}

countUniqueSkills(text, resumeData) ==
    LET structured ==
            IF IsSome(resumeData) /\ IsSome(Get(resumeData).skills)
            THEN UNION {IF IsSome(Get(Get(resumeData).skills)[i].list)
                        THEN {toLowerCase(sk) :
                                sk \in Range(Get(Get(Get(resumeData).skills)[i].list))}
                        ELSE {} : i \in DOMAIN Get(Get(resumeData).skills)}
            ELSE {}
        fromText == UNION {TokenSkills(tok) : tok \in text.marks}
    IN  Cardinality(structured \cup fromText)

\* Line 82 without the filter: splitting the empty string leaves one empty word.
WordCountUnfiltered(text) ==
    IF text.fill + Cardinality(text.marks) + text.bulletLines = 0 THEN 1
    ELSE text.fill + Cardinality(text.marks) + text.bulletLines

\* resumeText.trim().split(/\s+/).filter(w => w.length > 0).length
WordCount(text) == text.fill + Cardinality(text.marks) + text.bulletLines


\* Lines 105-119: the advisory issue list, in the order the checks are made.
Issues(m) ==
    (IF m.wordCount < 50 THEN <<"Resume text too short (< 50 words)">> ELSE << >>)
    \o (IF m.wordCount < 100 THEN <<"Resume appears incomplete">> ELSE << >>)
    \o (IF ~m.hasContactInfo THEN <<"Missing contact information">> ELSE << >>)
    \o (IF ~m.hasSkills /\ ~m.hasExperience /\ ~m.hasProjects
        THEN <<"No substantive content detected">> ELSE << >>)
    \o (IF m.sectionCount < 2 THEN <<"Missing standard resume sections">> ELSE << >>)

\* Word count contribution (0-20 points)
WordCountPoints(wordCount) ==
    IF wordCount >= 400 THEN 20
    ELSE IF wordCount >= 200 THEN 15
    ELSE IF wordCount >= 100 THEN 10
    ELSE IF wordCount >= 50 THEN 5
    ELSE 0

\* Section presence contribution (0-30 points)
SectionPresencePoints(m) ==
    (IF m.hasContactInfo THEN 5 ELSE 0)
    + (IF m.hasSkills THEN 8 ELSE 0)
    + (IF m.hasEducation THEN 5 ELSE 0)
    + (IF m.hasExperience THEN 7 ELSE 0)
    + (IF m.hasProjects THEN 5 ELSE 0)

\* Content depth contribution: the ladder used for bulletCount and uniqueSkillCount
DepthPointsMissingTop(n) ==
    IF n >= 5 THEN 10
    ELSE IF n >= 2 THEN 5
    ELSE 0

DepthPoints(n) ==
    IF n >= 10 THEN 15
    ELSE IF n >= 5 THEN 10
    ELSE IF n >= 2 THEN 5
    ELSE 0

\* Section count contribution (0-20 points)
SectionCountPoints(sectionCount) ==
    IF sectionCount >= 5 THEN 20
    ELSE IF sectionCount >= 3 THEN 15
    ELSE IF sectionCount >= 2 THEN 10
    ELSE IF sectionCount >= 1 THEN 5
    ELSE 0

QualityScore(m) ==
    WordCountPoints(m.wordCount)
    + SectionPresencePoints(m)
    + DepthPoints(m.bulletCount)
    + DepthPoints(m.uniqueSkillCount)
    + SectionCountPoints(m.sectionCount)

\* Lines 152-167 with every comparison strict: a score on a threshold drops a band.
QualityLevelStrict(qualityScore) ==
    IF qualityScore > 80 THEN [quality |-> "excellent", isValid |-> TRUE]
    ELSE IF qualityScore > 60 THEN [quality |-> "good", isValid |-> TRUE]
    ELSE IF qualityScore > 40 THEN [quality |-> "fair", isValid |-> TRUE]
    ELSE IF qualityScore > 20 THEN [quality |-> "poor", isValid |-> TRUE]
    ELSE [quality |-> "invalid", isValid |-> FALSE]

\* Determine quality level
QualityLevel(qualityScore) ==
    IF qualityScore >= 80 THEN [quality |-> "excellent", isValid |-> TRUE]
    ELSE IF qualityScore >= 60 THEN [quality |-> "good", isValid |-> TRUE]
    ELSE IF qualityScore >= 40 THEN [quality |-> "fair", isValid |-> TRUE]
    ELSE IF qualityScore >= 20 THEN [quality |-> "poor", isValid |-> TRUE]
    ELSE [quality |-> "invalid", isValid |-> FALSE]

ContentMetrics(input) ==
    LET resumeText == input.resumeText
        resumeData == input.resumeData
    IN  [wordCount |-> WordCount(resumeText),
         sectionCount |-> countSections(resumeText),
         hasContactInfo |-> checkContactInfo(resumeText),
         hasSkills |-> checkSkillsPresence(resumeText, resumeData),
         hasEducation |-> checkEducationPresence(resumeText, resumeData),
         hasExperience |-> checkExperiencePresence(resumeText, resumeData),
         hasProjects |-> checkProjectsPresence(resumeText, resumeData),
         bulletCount |-> countBulletPoints(resumeText, resumeData),
         uniqueSkillCount |-> countUniqueSkills(resumeText, resumeData)]

assessInputQuality(input) ==
    LET contentMetrics == ContentMetrics(input)
        issues == Issues(contentMetrics)
        qualityScore == QualityScore(contentMetrics)
        level == QualityLevel(qualityScore)
    IN  [isValid |-> level.isValid,
         quality |-> level.quality,
         qualityScore |-> qualityScore,
         issues |-> issues,
         contentMetrics |-> contentMetrics]


(***************************************************************************)
(* CANDIDATE LEVEL NORMALIZATION                                           *)
(***************************************************************************)
CandidateLevels == {"fresher", "junior", "mid", "senior", "lead"}  \* "lead": a value outside the union

TierNames ==
    {"skills_keywords", "experience", "education", "projects", "certifications",
     "basic_structure", "content_structure", "competitive", "culture_fit",
     "qualitative"}

\* Lines 190-201 with the fresher's experience weight left at 10 instead of being
\* redistributed to the other tiers.
getNormalizedWeightsExperienceKept(level) ==
    CASE level = "fresher" ->
            [skills_keywords |-> 35, experience |-> 10, education |-> 18,
             projects |-> 20, certifications |-> 8, basic_structure |-> 6,
             content_structure |-> 6, competitive |-> 3, culture_fit |-> 2,
             qualitative |-> 2]
      [] level = "junior" ->
            [skills_keywords |-> 30, experience |-> 12, education |-> 12,
             projects |-> 16, certifications |-> 6, basic_structure |-> 7,
             content_structure |-> 8, competitive |-> 4, culture_fit |-> 3,
             qualitative |-> 2]
      [] level = "mid" ->
            [skills_keywords |-> 25, experience |-> 25, education |-> 6,
             projects |-> 10, certifications |-> 5, basic_structure |-> 8,
             content_structure |-> 10, competitive |-> 5, culture_fit |-> 3,
             qualitative |-> 3]
      [] OTHER ->
            [skills_keywords |-> 22, experience |-> 30, education |-> 4,
             projects |-> 8, certifications |-> 4, basic_structure |-> 8,
             content_structure |-> 10, competitive |-> 7, culture_fit |-> 4,
             qualitative |-> 3]

getNormalizedWeights(level) ==
    CASE level = "fresher" ->
            [skills_keywords |-> 35, experience |-> 0, education |-> 18,
             projects |-> 20, certifications |-> 8, basic_structure |-> 6,
             content_structure |-> 6, competitive |-> 3, culture_fit |-> 2,
             qualitative |-> 2]
      [] level = "junior" ->
            [skills_keywords |-> 30, experience |-> 12, education |-> 12,
             projects |-> 16, certifications |-> 6, basic_structure |-> 7,
             content_structure |-> 8, competitive |-> 4, culture_fit |-> 3,
             qualitative |-> 2]
      [] level = "mid" ->
            [skills_keywords |-> 25, experience |-> 25, education |-> 6,
             projects |-> 10, certifications |-> 5, basic_structure |-> 8,
             content_structure |-> 10, competitive |-> 5, culture_fit |-> 3,
             qualitative |-> 3]
      [] OTHER ->
            [skills_keywords |-> 22, experience |-> 30, education |-> 4,
             projects |-> 8, certifications |-> 4, basic_structure |-> 8,
             content_structure |-> 10, competitive |-> 7, culture_fit |-> 4,
             qualitative |-> 3]

RECURSIVE GCD(_, _)
GCD(a, b) == IF b = 0 THEN a ELSE GCD(b, a % b)

\* The number n / d (d > 0) in lowest terms: the value of a JavaScript division of
\* two integers, before it is rounded to a double.
Quotient(n, d) == LET g == GCD(n, d) IN IF g = 0 THEN <<0, 1>> ELSE <<n \div g, d \div g>>

\* Line 264 without the ?? fallback's left side: the tier keeps its own weight.
NewWeightKeepsOld(weights, key, tier) == tier.weight

\* const newWeight = weights[tierKey] ?? tier.weight
NewWeight(weights, key, tier) ==
    IF key \in DOMAIN weights THEN weights[key] ELSE tier.weight

applyNormalizedWeights(scores, level) ==
    LET weights == getNormalizedWeights(level)
    IN  [key \in DOMAIN scores |->
            LET tier == scores[key]
                newWeight == NewWeight(weights, key, tier)
            IN  [tier EXCEPT !.weight = newWeight,
                             !.weighted_contribution =
                                 Quotient(tier.percentage * newWeight, 100)]]


(***************************************************************************)
(* JavaScript numbers                                                      *)
(*                                                                         *)
(* baseScore * qualityMultiplier and the addition of the bonus are IEEE    *)
(* 754 binary64 operations: the exact result, rounded to 53 significant    *)
(* bits, ties to even.  A number is [neg, mant, exp] with value            *)
(* (-1)^neg * mant * 2^exp; mant is a natural number written as its bits,  *)
(* least significant first, without leading zeros (<< >> is 0), so that    *)
(* no intermediate value needs more than 32 bits.                          *)
(***************************************************************************)
Precision == 53

Bit(b, i) == IF i \in DOMAIN b THEN b[i] ELSE 0

RECURSIVE Normalize(_)
Normalize(b) ==
    IF b = << >> THEN << >>
    ELSE IF b[Len(b)] = 0 THEN Normalize(SubSeq(b, 1, Len(b) - 1))
    ELSE b

RECURSIVE BitsOfNat(_)
BitsOfNat(n) == IF n = 0 THEN << >> ELSE <<n % 2>> \o BitsOfNat(n \div 2)

RECURSIVE NatOfBits(_)
NatOfBits(b) == IF b = << >> THEN 0 ELSE b[1] + 2 * NatOfBits(Tail(b))

Zeros(n) == [i \in 1..n |-> 0]

HexBits(d) == <<d % 2, (d \div 2) % 2, (d \div 4) % 2, d \div 8>>

\* The bits of a hexadecimal numeral given most significant digit first.
RECURSIVE FromHex(_)
FromHex(ds) == IF ds = << >> THEN << >> ELSE FromHex(Tail(ds)) \o HexBits(Head(ds))

RECURSIVE AddCarry(_, _, _, _)
AddCarry(a, b, i, carry) ==
    IF i > Max(Len(a), Len(b))
    THEN (IF carry = 1 THEN <<1>> ELSE << >>)
    ELSE LET t == Bit(a, i) + Bit(b, i) + carry
         IN  <<t % 2>> \o AddCarry(a, b, i + 1, t \div 2)

BigAdd(a, b) == AddCarry(a, b, 1, 0)

RECURSIVE SubBorrow(_, _, _, _)
SubBorrow(a, b, i, borrow) ==
    IF i > Len(a) THEN << >>
    ELSE LET t == Bit(a, i) - Bit(b, i) - borrow
         IN  IF t < 0 THEN <<t + 2>> \o SubBorrow(a, b, i + 1, 1)
             ELSE <<t>> \o SubBorrow(a, b, i + 1, 0)

\* a - b for a >= b
BigSub(a, b) == Normalize(SubBorrow(a, b, 1, 0))

\* a < b, for a and b without leading zeros
BigLess(a, b) ==
    IF Len(a) # Len(b) THEN Len(a) < Len(b)
    ELSE \E i \in DOMAIN a :
            /\ a[i] < b[i]
            /\ \A j \in DOMAIN a : j > i => a[j] = b[j]

RECURSIVE MulCarry(_, _, _, _)
MulCarry(a, n, i, carry) ==
    IF i > Len(a) THEN BitsOfNat(carry)
    ELSE LET t == a[i] * n + carry
         IN  <<t % 2>> \o MulCarry(a, n, i + 1, t \div 2)

\* a * b, for b below 2^20 (base scores are small integers)
BigMul(a, b) == MulCarry(a, NatOfBits(b), 1, 0)

\* Round a natural number to Precision significant bits, to nearest, ties to even.
RoundToPrecision(b) ==
    IF Len(b) <= Precision THEN [mant |-> b, shift |-> 0]
    ELSE LET s == Len(b) - Precision
             kept == SubSeq(b, s + 1, Len(b))
             guard == b[s]
             sticky == \E i \in 1..(s - 1) : b[i] = 1
             up == guard = 1 /\ (sticky \/ kept[1] = 1)
         IN  [mant |-> IF up THEN BigAdd(kept, <<1>>) ELSE kept, shift |-> s]

FromInt(n) ==
    [neg |-> n < 0, mant |-> BitsOfNat(IF n < 0 THEN -n ELSE n), exp |-> 0]

\* The double of the number n / 2^k given in lowest terms as <<n, 2^k>>: exact,
\* for every score in range has far fewer than 53 significant bits.
RECURSIVE Log2(_)
Log2(d) == IF d <= 1 THEN 0 ELSE 1 + Log2(d \div 2)

FromNumber(q) ==
    [neg |-> q[1] < 0, mant |-> BitsOfNat(IF q[1] < 0 THEN -q[1] ELSE q[1]),
     exp |-> -Log2(q[2])]

\* x * y
FlMul(x, y) ==
    LET product == IF Len(x.mant) <= Len(y.mant) THEN BigMul(y.mant, x.mant)
                   ELSE BigMul(x.mant, y.mant)
        r == RoundToPrecision(Normalize(product))
    IN  [neg |-> x.neg # y.neg, mant |-> r.mant, exp |-> x.exp + y.exp + r.shift]

\* x + y
FlAdd(x, y) ==
    LET e == Min(x.exp, y.exp)
        ax == IF x.mant = << >> THEN << >> ELSE Zeros(x.exp - e) \o x.mant
        ay == IF y.mant = << >> THEN << >> ELSE Zeros(y.exp - e) \o y.mant
        sum == IF x.neg = y.neg THEN [neg |-> x.neg, mant |-> BigAdd(ax, ay)]
               ELSE IF BigLess(ax, ay) THEN [neg |-> y.neg, mant |-> BigSub(ay, ax)]
               ELSE [neg |-> x.neg, mant |-> BigSub(ax, ay)]
        r == RoundToPrecision(sum.mant)
    IN  [neg |-> sum.neg, mant |-> r.mant, exp |-> e + r.shift]

\* Math.round(x): the integer nearest to x, a tie going towards +Infinity.
MathRound(x) ==
    IF x.exp >= 0
    THEN (IF x.neg THEN -1 ELSE 1) * NatOfBits(Zeros(x.exp) \o x.mant)
    ELSE LET k == -x.exp
             int == NatOfBits(SubSeq(x.mant, k + 1, Len(x.mant)))
             half == Bit(x.mant, k) = 1
             rest == \E i \in 1..(k - 1) : Bit(x.mant, i) = 1
         IN  IF x.neg THEN -(int + (IF half /\ rest THEN 1 ELSE 0))
             ELSE int + (IF half THEN 1 ELSE 0)


(***************************************************************************)
(* SCORE ADJUSTMENT                                                        *)
(***************************************************************************)
QualityLabels == {"excellent", "good", "fair", "poor", "invalid"}

\* The doubles nearest to the decimal literals 1.0, 0.95, 0.85, 0.70 and 0.40.
Double100 == [neg |-> FALSE, mant |-> <<1>>, exp |-> 0]
Double095 == [neg |-> FALSE, exp |-> -53,
              mant |-> Normalize(FromHex(<<1, 14, 6, 6, 6, 6, 6, 6, 6, 6, 6, 6, 6, 6>>))]
Double085 == [neg |-> FALSE, exp |-> -53,
              mant |-> Normalize(FromHex(<<1, 11, 3, 3, 3, 3, 3, 3, 3, 3, 3, 3, 3, 3>>))]
Double070 == [neg |-> FALSE, exp |-> -53,
              mant |-> Normalize(FromHex(<<1, 6, 6, 6, 6, 6, 6, 6, 6, 6, 6, 6, 6, 6>>))]
Double040 == [neg |-> FALSE, exp |-> -54,
              mant |-> Normalize(FromHex(<<1, 9, 9, 9, 9, 9, 9, 9, 9, 9, 9, 9, 9, 10>>))]

\* switch (inputQuality.quality): the multiplier and the explanation of each branch
QualityBranch(quality) ==
    CASE quality = "excellent" ->
            [qualityMultiplier |-> Double100,
             explanation |-> <<"Full scoring applied - excellent input quality">>]
      [] quality = "good" ->
            [qualityMultiplier |-> Double095,
             explanation |-> <<"Minor quality adjustment applied">>]
      [] quality = "fair" ->
            [qualityMultiplier |-> Double085,
             explanation |-> <<"Quality adjustment applied - some content missing">>]
      [] quality = "poor" ->
            [qualityMultiplier |-> Double070,
             explanation |-> <<"Significant quality adjustment - incomplete resume">>]
      [] quality = "invalid" ->
            [qualityMultiplier |-> Double040,
             explanation |-> <<"Major quality penalty - resume appears invalid or empty">>]
      [] OTHER ->
            [qualityMultiplier |-> Double100, explanation |-> <<"">>]

\* Lines 316-324 without the candidateLevel === 'fresher' test.
CandidateLevelBonusEveryLevel(inputQuality, level) ==
    IF inputQuality.quality # "invalid"
    THEN IF inputQuality.contentMetrics.hasProjects
            /\ inputQuality.contentMetrics.uniqueSkillCount >= 5
         THEN 5 ELSE 0
    ELSE 0

\* Lines 316-324 without the uniqueSkillCount test.
CandidateLevelBonusAnySkills(inputQuality, level) ==
    IF level = "fresher" /\ inputQuality.quality # "invalid"
          /\ inputQuality.contentMetrics.hasProjects
    THEN 5 ELSE 0

\* Candidate level bonus for freshers with good content
CandidateLevelBonus(inputQuality, level) ==
    IF level = "fresher" /\ inputQuality.quality # "invalid"
    THEN IF inputQuality.contentMetrics.hasProjects
            /\ inputQuality.contentMetrics.uniqueSkillCount >= 5
         THEN 5 ELSE 0
    ELSE 0

\* Math.min(100, Math.max(0, n))
Clamp(n) == Min(100, Max(0, n))

\* Math.min(100, Math.max(0, Math.round(baseScore * qualityMultiplier + candidateLevelBonus)))
\* baseScore is a number, given as <<numerator, denominator>> in lowest terms.
FinalScore(baseScore, qualityMultiplier, candidateLevelBonus) ==
    LET adjustedBase == FlMul(FromNumber(baseScore), qualityMultiplier)
    IN  Clamp(MathRound(FlAdd(adjustedBase, FromInt(candidateLevelBonus))))

\* The explanation is the sequence of its parts (the strings joined by +=).
calculateAdjustedScore(baseScore, inputQuality, level) ==
    LET branch == QualityBranch(inputQuality.quality)
        candidateLevelBonus == CandidateLevelBonus(inputQuality, level)
    IN  [baseScore |-> baseScore,
         qualityMultiplier |-> branch.qualityMultiplier,
         candidateLevelBonus |-> candidateLevelBonus,
         finalScore |-> FinalScore(baseScore, branch.qualityMultiplier,
                                   candidateLevelBonus),
         explanation |-> branch.explanation \o
             (IF candidateLevelBonus = 5
              THEN <<" | Fresher bonus applied for strong projects/skills">>
              ELSE << >>)]


(***************************************************************************)
(* CONFIDENCE ALIGNMENT                                                    *)
(***************************************************************************)
\* Input quality contribution (0-4 points)
QualityPoints(quality) ==
    CASE quality = "excellent" -> 4
      [] quality = "good" -> 3
      [] quality = "fair" -> 2
      [] quality = "poor" -> 1
      [] OTHER -> 0

\* Score quality contribution (0-4 points)
ScorePoints(score) ==
    IF score >= 75 THEN 4
    ELSE IF score >= 65 THEN 3
    ELSE IF score >= 55 THEN 2
    ELSE IF score >= 45 THEN 1
    ELSE 0

\* Lines 379-386 counting experience and projects as two sections of five.
CompletenessPointsSeparate(contentMetrics) ==
    LET sectionsPresent ==
            Cardinality({i \in 1..5 :
                <<contentMetrics.hasContactInfo, contentMetrics.hasSkills,
                  contentMetrics.hasEducation, contentMetrics.hasExperience,
                  contentMetrics.hasProjects>>[i]})
    IN  IF sectionsPresent >= 4 THEN 1 ELSE 0

\* Content completeness bonus (0-1 point)
CompletenessPoints(contentMetrics) ==
    LET sectionsPresent ==
            Cardinality({i \in 1..4 :
                <<contentMetrics.hasContactInfo, contentMetrics.hasSkills,
                  contentMetrics.hasEducation,
                  contentMetrics.hasExperience \/ contentMetrics.hasProjects>>[i]})
    IN  IF sectionsPresent >= 4 THEN 1 ELSE 0

\* confidencePoints as accumulated by lines 355-386
ConfidencePoints(score, inputQuality, hasJD) ==
    QualityPoints(inputQuality.quality)
    + ScorePoints(score)
    + (IF hasJD THEN 1 ELSE 0)
    + CompletenessPoints(inputQuality.contentMetrics)

\* The returned level, with the point total the call computed (<< >> when the
\* score >= 85 return is taken before any point is counted).
calculateAlignedConfidence(score, inputQuality, hasJD) ==
    IF score >= 85 THEN [level |-> "High", confidencePoints |-> None]
    ELSE LET confidencePoints == ConfidencePoints(score, inputQuality, hasJD)
         IN  [level |-> IF confidencePoints >= 7 THEN "High"
                        ELSE IF confidencePoints >= 4 THEN "Medium"
                        ELSE "Low",
              confidencePoints |-> Some(confidencePoints)]

\* Lines 398-408 with strict comparisons: a score on a threshold drops a band.
getAlignedMatchBandStrict(score) ==
    IF score > 85 THEN "Excellent Match"
    ELSE IF score > 75 THEN "Very Good Match"
    ELSE IF score > 65 THEN "Good Match"
    ELSE IF score > 55 THEN "Fair Match"
    ELSE IF score > 45 THEN "Below Average"
    ELSE IF score > 35 THEN "Poor Match"
    ELSE IF score > 25 THEN "Very Poor"
    ELSE IF score > 15 THEN "Inadequate"
    ELSE "Minimal Match"

getAlignedMatchBand(score) ==
    IF score >= 85 THEN "Excellent Match"
    ELSE IF score >= 75 THEN "Very Good Match"
    ELSE IF score >= 65 THEN "Good Match"
    ELSE IF score >= 55 THEN "Fair Match"
    ELSE IF score >= 45 THEN "Below Average"
    ELSE IF score >= 35 THEN "Poor Match"
    ELSE IF score >= 25 THEN "Very Poor"
    ELSE IF score >= 15 THEN "Inadequate"
    ELSE "Minimal Match"

getAlignedInterviewProbability(score) ==
    IF score >= 85 THEN "70-85%"
    ELSE IF score >= 75 THEN "55-70%"
    ELSE IF score >= 65 THEN "40-55%"
    ELSE IF score >= 55 THEN "25-40%"
    ELSE IF score >= 45 THEN "15-25%"
    ELSE IF score >= 35 THEN "8-15%"
    ELSE IF score >= 25 THEN "3-8%"
    ELSE IF score >= 15 THEN "1-3%"
    ELSE "0-1%"


(***************************************************************************)
(* ApifyService                                                            *)
(***************************************************************************)
\* JavaScript truthiness of an optional number: undefined, null and 0 are falsy.
Truthy(n) == IsSome(n) /\ Get(n) # 0

validateSearchConfig(config) ==
    LET keywordErrors ==
            IF ~IsSome(config.keywords) \/ Len(Get(config.keywords)) = 0
            THEN <<"At least one keyword is required">> ELSE << >>
        maxResultsErrors ==
            IF Truthy(config.maxResults)
                  /\ (Get(config.maxResults) < 1 \/ Get(config.maxResults) > 1000)
            THEN <<"Max results must be between 1 and 1000">> ELSE << >>
        errors == keywordErrors \o maxResultsErrors
    IN  [valid |-> Len(errors) = 0, errors |-> errors]

\* l.jobs_fetched || 0
OrZero(n) == IF Truthy(n) THEN Get(n) ELSE 0

\* The statistics computed from the rows of select('*'), in the order returned.
SyncStatsOf(rows) ==
    [totalSyncs |-> Len(rows),
     successfulSyncs |-> Cardinality({i \in DOMAIN rows : rows[i].status = "success"}),
     failedSyncs |-> Cardinality({i \in DOMAIN rows : rows[i].status = "failed"}),
     totalJobsFetched |-> SumSeq([i \in DOMAIN rows |-> OrZero(rows[i].jobs_fetched)]),
     totalJobsCreated |-> SumSeq([i \in DOMAIN rows |-> OrZero(rows[i].jobs_created)]),
     lastSyncDate |-> IF Len(rows) > 0 /\ Truthy(rows[1].created_at)
                      THEN rows[1].created_at ELSE None]

\* The catch block of triggerManualSync left out: the error leaves the method.
CaughtRethrown(e) == [threw |-> TRUE, value |-> None]

\* catch (error) { return { success: false, message: ... } }
Caught(e) ==
    [threw |-> FALSE,
     value |-> Some([success |-> FALSE,
                     message |-> IF e.isError THEN e.message
                                 ELSE "Failed to trigger sync"])]

\* new Error(message)
NewError(message) == [isError |-> TRUE, message |-> message]

\* What the remote store or function may report: an Error instance or a plain object.
RemoteErrors ==
    {[isError |-> TRUE, message |-> "remote error"],
     [isError |-> FALSE, message |-> "remote error"]}


(***************************************************************************)
(* Bounds and the inputs drawn from them                                   *)
(***************************************************************************)
MaxWords == 401       \* plain words in a resume text
MaxBullets == 11      \* bullet lines in a text, bullets in a structured resume
MaxSkills == 11       \* skills listed in a structured resume
MaxExcess == 3        \* how far a score may lie below 0 or above 100
MaxCalls == 2         \* triggerManualSync calls in one behaviour
MaxLogs == 3          \* rows of job_sync_logs
MaxOutside == 3       \* how far maxResults may lie below 0 or above 1000

\* Counts on either side of every threshold the rubric uses.
WordSamples == {0, 49, 50, 99, 100, 199, 200, 399, 400, MaxWords}
BulletSamples == {0, 1, 2, 4, 5, 9, 10, MaxBullets}
SkillSamples == {0, 1, 2, 4, 5, 9, 10, MaxSkills}

MarkSamples ==
    {core \cup extra :
        core \in SUBSET {"EXPERIENCE", "SKILLS", "PROJECTS", "developed", "jo@ex.io"},
        extra \in {{}, {"EDUCATION"}, {"EDUCATION", "SUMMARY"},
                   {"bachelor", "python", "5551234567", "PROFESSIONALEXPERIENCE"}}}

TextSamples == [fill : WordSamples, marks : MarkSamples, bulletLines : BulletSamples]

SkillCatalog ==
    <<"Python", "JAVA", "React", "node", "sql", "aws", "docker", "git", "rust",
      "go", "css", "html", "redis", "vue">>

Bullets(n) == [i \in 1..n |-> "bullet"]

\* A structured resume that lists n skills in one category and nothing else.
SkillsData(n) ==
    [skills |-> Some(<<[category |-> "Technical",
                        list |-> Some(SubSeq(SkillCatalog, 1, n))]>>),
     education |-> None, workExperience |-> None, projects |-> None]

\* A structured resume with every section filled; "python" is listed twice.
FullData ==
    [skills |-> Some(<<[category |-> "Languages", list |-> Some(<<"Python", "python", "JAVA">>)],
                       [category |-> "Tools", list |-> None]>>),
     education |-> Some(<<[degree |-> "B.Tech"]>>),
     workExperience |-> Some(<<[company |-> "A", bullets |-> Some(Bullets(3))],
                               [company |-> "B", bullets |-> None]>>),
     projects |-> Some(<<[title |-> "P", bullets |-> Some(Bullets(2))]>>)]

\* A structured resume whose sections are present and hold no content.
HollowData ==
    [skills |-> Some(<<[category |-> "Languages", list |-> Some(<< >>)]>>),
     education |-> Some(<< >>),
     workExperience |-> Some(<<[company |-> "A", bullets |-> None]>>),
     projects |-> Some(<<[title |-> "P", bullets |-> Some(<< >>)]>>)]

DataSamples ==
    {None, Some(FullData), Some(HollowData)}
    \cup {Some(SkillsData(n)) : n \in SkillSamples \ {0}}

AssessInputs == [resumeText : TextSamples, resumeData : DataSamples]

Scores == (0 - MaxExcess)..(100 + MaxExcess)

\* baseScore: number. The whole and the half scores of the same range, each as
\* <<numerator, denominator>> in lowest terms.
BaseScores == {Quotient(h, 2) : h \in (0 - 2 * MaxExcess)..(2 * (100 + MaxExcess))}

\* An assessment with the given label and metrics, as assessInputQuality builds it.
QualitySample(quality, flags, uniqueSkillCount) ==
    [isValid |-> quality # "invalid",
     quality |-> quality,
     qualityScore |-> CASE quality = "excellent" -> 80 [] quality = "good" -> 60
                        [] quality = "fair" -> 40 [] quality = "poor" -> 20
                        [] OTHER -> 15,
     issues |-> << >>,
     contentMetrics |->
        [wordCount |-> 100, sectionCount |-> 2,
         hasContactInfo |-> flags[1], hasSkills |-> flags[2],
         hasEducation |-> flags[3], hasExperience |-> flags[4],
         hasProjects |-> flags[5],
         bulletCount |-> 2, uniqueSkillCount |-> uniqueSkillCount]]

AdjustQualities ==
    {QualitySample(q, <<TRUE, TRUE, TRUE, FALSE, p>>, n) :
        q \in QualityLabels, p \in BOOLEAN, n \in {0, 4, 5, 10}}

ConfidenceQualities ==
    {QualitySample(q, f, 5) : q \in QualityLabels, f \in [1..5 -> BOOLEAN]}

\* Tier records: the fields the code reads and writes, and one it only copies.
TierSamples ==
    {[score |-> 7, max_score |-> 10, percentage |-> 70, weight |-> 25,
      weighted_contribution |-> <<35, 2>>],
     [score |-> 0, max_score |-> 10, percentage |-> 0, weight |-> 8,
      weighted_contribution |-> <<0, 1>>],
     [score |-> 1, max_score |-> 3, percentage |-> 33, weight |-> 13,
      weighted_contribution |-> <<429, 100>>],
     [score |-> 5, max_score |-> 5, percentage |-> 100, weight |-> 0,
      weighted_contribution |-> <<0, 1>>]}

\* Maps over some tiers of the table and one tier name the table does not know.
PartialTierMaps ==
    UNION {[keys -> TierSamples] :
             keys \in SUBSET {"skills_keywords", "experience", "projects", "custom_tier"}}

\* Maps over all ten tiers, each scored 0 or 100 percent.
FullTierMaps ==
    [TierNames -> {t \in TierSamples : t.percentage \in {0, 100}}]

\* Maps over all ten tiers, every tier with the same sample.
UniformTierMaps == {[key \in TierNames |-> t] : t \in TierSamples}

TierMaps == PartialTierMaps \cup FullTierMaps \cup UniformTierMaps

ConfigIds == {"cfg1", "cfg2"}
CallIds == 1..MaxCalls

SearchConfigs ==
    [keywords : {None, Some(<< >>), Some(<<"software">>)},
     maxResults : {None} \cup {Some(n) : n \in (0 - MaxOutside)..(1000 + MaxOutside)}]

LogRows(t) ==
    [created_at : {Some(t)},
     status : {"success", "failed", "running"},
     jobs_fetched : {None, Some(2)},
     jobs_created : {None, Some(1)}]

\* Every order in which the rows of a table can be returned.
Orders(rows) ==
    {order \in [1..Cardinality(rows) -> rows] : Range(order) = rows}


(***************************************************************************)
(* State machine                                                           *)
(***************************************************************************)
assessVars == <<assessInput, assessment>>
adjustVars == <<adjustInput, adjustment>>
confVars == <<confInput, confidence>>
bandVars == <<bandScore, matchBand, interviewProbability>>
weightVars == <<tierScores, candidateLevel, normalizedScores>>
syncVars == <<configs, calls, invocations>>
statsVars == <<logs, clock, stats, returnedRows>>
validateVars == <<searchConfig, validation>>

IdleCall ==
    [pc |-> "idle", configId |-> None, lookup |-> None, invokeError |-> None,
     outcome |-> None]

Init ==
    /\ assessInput = None /\ assessment = None
    /\ adjustInput = None /\ adjustment = None
    /\ confInput = None /\ confidence = None
    /\ bandScore = None /\ matchBand = None /\ interviewProbability = None
    /\ tierScores = None /\ candidateLevel = None /\ normalizedScores = None
    /\ configs = [id \in ConfigIds |-> None]
    /\ calls = [c \in CallIds |-> IdleCall]
    /\ invocations = << >>
    /\ logs = {}
    /\ clock = 1
    /\ stats = None /\ returnedRows = None
    /\ searchConfig = None /\ validation = None

\* One call of assessInputQuality per behaviour, on any input of the samples.
AssessInputQuality ==
    /\ assessment = None
    /\ \E input \in AssessInputs :
        /\ assessInput' = Some(input)
        /\ assessment' = Some(assessInputQuality(input))
    /\ UNCHANGED <<adjustVars, confVars, bandVars, weightVars, serviceVars>>

CalculateAdjustedScore ==
    /\ adjustment = None
    /\ \E baseScore \in BaseScores, inputQuality \in AdjustQualities,
          level \in CandidateLevels :
        /\ adjustInput' = Some([baseScore |-> baseScore,
                                inputQuality |-> inputQuality,
                                candidateLevel |-> level])
        /\ adjustment' = Some(calculateAdjustedScore(baseScore, inputQuality, level))
    /\ UNCHANGED <<assessVars, confVars, bandVars, weightVars, serviceVars>>

CalculateAlignedConfidence ==
    /\ confidence = None
    /\ \E score \in Scores, inputQuality \in ConfidenceQualities, hasJD \in BOOLEAN :
        /\ confInput' = Some([score |-> score, inputQuality |-> inputQuality,
                              hasJD |-> hasJD])
        /\ confidence' = Some(calculateAlignedConfidence(score, inputQuality, hasJD))
    /\ UNCHANGED <<assessVars, adjustVars, bandVars, weightVars, serviceVars>>

\* The caller asks for the band and for the probability of one score, in any order.
GetAlignedMatchBand ==
    /\ matchBand = None
    /\ \E score \in Scores :
        /\ bandScore \in {None, Some(score)}
        /\ bandScore' = Some(score)
        /\ matchBand' = Some(getAlignedMatchBand(score))
    /\ UNCHANGED <<interviewProbability>>
    /\ UNCHANGED <<assessVars, adjustVars, confVars, weightVars, serviceVars>>

GetAlignedInterviewProbability ==
    /\ interviewProbability = None
    /\ \E score \in Scores :
        /\ bandScore \in {None, Some(score)}
        /\ bandScore' = Some(score)
        /\ interviewProbability' = Some(getAlignedInterviewProbability(score))
    /\ UNCHANGED <<matchBand>>
    /\ UNCHANGED <<assessVars, adjustVars, confVars, weightVars, serviceVars>>

\* The argument object after the call: lines 262-271 assign to normalizedScores
\* only, and { ...tier, ... } builds a new tier object.
ArgumentAfterApply(scores, level) == scores

\* The caller holds a tier map and a candidate level; the call returns a new map.
ApplyNormalizedWeights ==
    /\ normalizedScores = None
    /\ IsSome(tierScores) /\ IsSome(candidateLevel)
    /\ normalizedScores' =
          Some(applyNormalizedWeights(Get(tierScores), Get(candidateLevel)))
    /\ tierScores' = Some(ArgumentAfterApply(Get(tierScores), Get(candidateLevel)))
    /\ UNCHANGED candidateLevel
    /\ UNCHANGED <<assessVars, adjustVars, confVars, bandVars, serviceVars>>

ValidateSearchConfig ==
    /\ validation = None
    /\ \E config \in SearchConfigs :
        /\ searchConfig' = Some(config)
        /\ validation' = Some(validateSearchConfig(config))
    /\ UNCHANGED <<scoringVars, syncVars, statsVars>>


\* The external sync job appends a row to job_sync_logs.
InsertSyncLog ==
    /\ Cardinality(logs) < MaxLogs
    /\ \E row \in LogRows(clock) : logs' = logs \cup {row}
    /\ clock' = clock + 1
    /\ UNCHANGED <<stats, returnedRows>>
    /\ UNCHANGED <<scoringVars, syncVars, validateVars>>

\* select('*') has no order clause: the store returns the rows in any order.
\* (When the store reports an error the method throws and nothing changes.)
GetSyncStats ==
    /\ \E rows \in Orders(logs) :
        /\ returnedRows' = Some(rows)
        /\ stats' = Some(SyncStatsOf(rows))
    /\ UNCHANGED <<logs, clock>>
    /\ UNCHANGED <<scoringVars, syncVars, validateVars>>

\* createConfig / updateConfig / toggleConfig / deleteConfig: one remote write each.
CreateConfig ==
    /\ \E id \in ConfigIds, active \in BOOLEAN :
        /\ configs[id] = None
        /\ configs' = [configs EXCEPT ![id] = Some([is_active |-> active])]
    /\ UNCHANGED <<calls, invocations>>
    /\ UNCHANGED <<scoringVars, statsVars, validateVars>>

ToggleConfig ==
    /\ \E id \in ConfigIds, isActive \in BOOLEAN :
        /\ IsSome(configs[id])
        /\ Get(configs[id]).is_active # isActive
        /\ configs' = [configs EXCEPT ![id] = Some([Get(@) EXCEPT !.is_active = isActive])]
    /\ UNCHANGED <<calls, invocations>>
    /\ UNCHANGED <<scoringVars, statsVars, validateVars>>

DeleteConfig ==
    /\ \E id \in ConfigIds :
        /\ IsSome(configs[id])
        /\ configs' = [configs EXCEPT ![id] = None]
    /\ UNCHANGED <<calls, invocations>>
    /\ UNCHANGED <<scoringVars, statsVars, validateVars>>

\* triggerManualSync(configId) is called and awaits getConfigById.
TriggerManualSync ==
    /\ \E c \in CallIds, id \in ConfigIds :
        /\ calls[c].pc = "idle"
        /\ calls' = [calls EXCEPT ![c] = [@ EXCEPT !.pc = "getConfigById",
                                                   !.configId = Some(id)]]
    /\ UNCHANGED <<configs, invocations>>
    /\ UNCHANGED <<scoringVars, statsVars, validateVars>>

\* The lookup fails: getConfigById throws the store's error (line 27).
LookupFails ==
    /\ \E c \in CallIds, e \in RemoteErrors :
        /\ calls[c].pc = "getConfigById"
        /\ calls' = [calls EXCEPT ![c] =
                        [@ EXCEPT !.pc = "done",
                                  !.lookup = Some([failed |-> TRUE, data |-> None]),
                                  !.outcome = Some(Caught(e))]]
    /\ UNCHANGED <<configs, invocations>>
    /\ UNCHANGED <<scoringVars, statsVars, validateVars>>

\* The lookup returns the row or null; lines 92-102 run up to the next await.
LookupReturns ==
    /\ \E c \in CallIds :
        /\ calls[c].pc = "getConfigById"
        /\ LET config == configs[Get(calls[c].configId)]
               lookup == Some([failed |-> FALSE, data |-> config])
           IN  IF ~IsSome(config)
               THEN /\ calls' = [calls EXCEPT ![c] =
                        [@ EXCEPT !.pc = "done", !.lookup = lookup,
                                  !.outcome = Some(Caught(NewError("Configuration not found")))]]
                    /\ UNCHANGED invocations
               ELSE IF ~Get(config).is_active
               THEN /\ calls' = [calls EXCEPT ![c] =
                        [@ EXCEPT !.pc = "done", !.lookup = lookup,
                                  !.outcome = Some(Caught(NewError("Configuration is not active")))]]
                    /\ UNCHANGED invocations
               ELSE /\ calls' = [calls EXCEPT ![c] =
                        [@ EXCEPT !.pc = "invoke", !.lookup = lookup]]
                    /\ invocations' = Append(invocations,
                            [fn |-> "apify-sync-jobs", call |-> c,
                             configId |-> Get(calls[c].configId)])
    /\ UNCHANGED configs
    /\ UNCHANGED <<scoringVars, statsVars, validateVars>>

\* functions.invoke resolves with { error: null }.
InvokeSucceeds ==
    /\ \E c \in CallIds :
        /\ calls[c].pc = "invoke"
        /\ calls' = [calls EXCEPT ![c] =
                        [@ EXCEPT !.pc = "done",
                                  !.invokeError = Some(None),
                                  !.outcome = Some([threw |-> FALSE,
                                      value |-> Some([success |-> TRUE,
                                          message |-> "Sync initiated successfully"])])]]
    /\ UNCHANGED <<configs, invocations>>
    /\ UNCHANGED <<scoringVars, statsVars, validateVars>>

\* functions.invoke resolves with an error (thrown at line 104) or rejects.
InvokeFails ==
    /\ \E c \in CallIds, e \in RemoteErrors :
        /\ calls[c].pc = "invoke"
        /\ calls' = [calls EXCEPT ![c] = [@ EXCEPT !.pc = "done",
                                                   !.invokeError = Some(Some(e)),
                                                   !.outcome = Some(Caught(e))]]
    /\ UNCHANGED <<configs, invocations>>
    /\ UNCHANGED <<scoringVars, statsVars, validateVars>>

(***************************************************************************)
(* Specifications: one per component, each from the same initial state     *)
(***************************************************************************)
SpecAssess == Init /\ [][AssessInputQuality]_vars

SpecAdjust == Init /\ [][CalculateAdjustedScore]_vars

SpecConfidence == Init /\ [][CalculateAlignedConfidence]_vars

NextBands == GetAlignedMatchBand \/ GetAlignedInterviewProbability
SpecBands == Init /\ [][NextBands]_vars

\* One call of one of the three functions that take a score: they share no state,
\* so a behaviour holds the arguments and the result of a single call.
NoScoreCall == adjustment = None /\ confidence = None /\ matchBand = None

NextScoreOutputs ==
    \/ NoScoreCall /\ CalculateAdjustedScore
    \/ NoScoreCall /\ CalculateAlignedConfidence
    \/ NoScoreCall /\ GetAlignedMatchBand

SpecScoreOutputs == Init /\ [][NextScoreOutputs]_vars

\* The caller's tier map and candidate level exist before the call.
InitWeights ==
    /\ assessInput = None /\ assessment = None
    /\ adjustInput = None /\ adjustment = None
    /\ confInput = None /\ confidence = None
    /\ bandScore = None /\ matchBand = None /\ interviewProbability = None
    /\ tierScores \in {Some(m) : m \in TierMaps}
    /\ candidateLevel \in {Some(l) : l \in CandidateLevels}
    /\ normalizedScores = None
    /\ configs = [id \in ConfigIds |-> None]
    /\ calls = [c \in CallIds |-> IdleCall]
    /\ invocations = << >>
    /\ logs = {}
    /\ clock = 1
    /\ stats = None /\ returnedRows = None
    /\ searchConfig = None /\ validation = None
SpecWeights == InitWeights /\ [][ApplyNormalizedWeights]_vars

SpecValidate == Init /\ [][ValidateSearchConfig]_vars

NextStats == InsertSyncLog \/ GetSyncStats
SpecStats == Init /\ [][NextStats]_vars

NextSync ==
    \/ CreateConfig \/ ToggleConfig \/ DeleteConfig
    \/ TriggerManualSync \/ LookupFails \/ LookupReturns
    \/ InvokeSucceeds \/ InvokeFails
SpecSync == Init /\ [][NextSync]_vars

Next ==
    \/ AssessInputQuality \/ CalculateAdjustedScore \/ CalculateAlignedConfidence
    \/ NextBands \/ ApplyNormalizedWeights \/ ValidateSearchConfig
    \/ NextStats \/ NextSync
Spec == Init /\ [][Next]_vars


(***************************************************************************)
(* Claims                                                                  *)
(***************************************************************************)
\* The multiplier of a quality label, in hundredths.
MultiplierPercent(quality) ==
    CASE quality = "excellent" -> 100
      [] quality = "good" -> 95
      [] quality = "fair" -> 85
      [] quality = "poor" -> 70
      [] quality = "invalid" -> 40

\* C1: for every base score, quality label and candidate level the returned
\* finalScore is baseScore x multiplier + bonus rounded to the nearest integer
\* (half up) and clamped to [0,100], the multiplier being 1.00/0.95/0.85/0.70/0.40.
C1_FinalScoreIsRoundedProduct ==
    IsSome(adjustment) =>
        LET in == Get(adjustInput)
            out == Get(adjustment)
            den == in.baseScore[2]
            hundredths == in.baseScore[1] * MultiplierPercent(in.inputQuality.quality)
                          + 100 * den * out.candidateLevelBonus
            halfUp == (hundredths + 50 * den) \div (100 * den)
        IN  /\ out.finalScore \in 0..100
            /\ out.finalScore = (IF halfUp < 0 THEN 0 ELSE IF halfUp > 100 THEN 100 ELSE halfUp)

\* C2: qualityScore is the sum of the four point buckets, lies in [0,100], and is
\* 100 exactly when every metric is in its top band.
C2_QualityScoreIsBucketSum ==
    IsSome(assessment) =>
        LET out == Get(assessment)
            m == out.contentMetrics
            flag(b, points) == IF b THEN points ELSE 0
            steps(n, thresholds) == 5 * Cardinality({t \in thresholds : n >= t})
            expected ==
                steps(m.wordCount, {50, 100, 200, 400})
                + flag(m.hasContactInfo, 5) + flag(m.hasSkills, 8)
                + flag(m.hasEducation, 5) + flag(m.hasExperience, 7)
                + flag(m.hasProjects, 5)
                + steps(m.bulletCount, {2, 5, 10})
                + steps(m.uniqueSkillCount, {2, 5, 10})
                + steps(m.sectionCount, {1, 2, 3, 5})
        IN  /\ out.qualityScore = expected
            /\ out.qualityScore \in 0..100
            /\ out.qualityScore = 100 <=>
                  /\ m.wordCount >= 400
                  /\ m.hasContactInfo /\ m.hasSkills /\ m.hasEducation
                  /\ m.hasExperience /\ m.hasProjects
                  /\ m.bulletCount >= 10
                  /\ m.uniqueSkillCount >= 10
                  /\ m.sectionCount >= 5

C2_Witness_PerfectScore ==
    /\ IsSome(assessment)
    /\ Get(assessment).qualityScore = 100
    /\ Get(assessment).contentMetrics.wordCount >= 400

\* C3: the label is decided by qualityScore alone with inclusive lower bounds
\* 80/60/40/20, and isValid is false exactly for the label invalid, whatever
\* issues the result carries.
C3_LabelFollowsScore ==
    IsSome(assessment) =>
        LET out == Get(assessment)
            labels == <<"invalid", "poor", "fair", "good", "excellent">>
            band == 1 + Cardinality({t \in {20, 40, 60, 80} : out.qualityScore >= t})
        IN  /\ out.quality = labels[band]
            /\ (out.isValid = FALSE) <=> (out.quality = "invalid")
            /\ out.isValid <=> out.qualityScore >= 20

C3_Witness_ValidWithIssues ==
    /\ IsSome(assessment)
    /\ Get(assessment).qualityScore = 20
    /\ Get(assessment).isValid
    /\ Len(Get(assessment).issues) >= 4

\* C4: a score >= 85 gives High whatever else is passed; below 85 the level is the
\* band (>= 7 High, >= 4 Medium, else Low) of quality points + score points + 1
\* for a job description + 1 for complete content, a total within [0,10].
C4_ConfidenceIsBandOfPoints ==
    IsSome(confidence) =>
        LET in == Get(confInput)
            out == Get(confidence)
            m == in.inputQuality.contentMetrics
            labels == <<"invalid", "poor", "fair", "good", "excellent">>
            qualityPoints ==
                (CHOOSE i \in 1..5 : labels[i] = in.inputQuality.quality) - 1
            scorePoints == Cardinality({t \in {45, 55, 65, 75} : in.score >= t})
            complete == /\ m.hasContactInfo /\ m.hasSkills /\ m.hasEducation
                        /\ (m.hasExperience \/ m.hasProjects)
            total == qualityPoints + scorePoints + (IF in.hasJD THEN 1 ELSE 0)
                     + (IF complete THEN 1 ELSE 0)
        IN  IF in.score >= 85 THEN out.level = "High"
            ELSE /\ out.confidencePoints = Some(total)
                 /\ total \in 0..10
                 /\ out.level = (IF total >= 7 THEN "High"
                                 ELSE IF total >= 4 THEN "Medium" ELSE "Low")

C4_Witness_AllPoints ==
    /\ IsSome(confidence)
    /\ Get(confInput).score < 85
    /\ Get(confidence).confidencePoints = Some(10)
    /\ Get(confidence).level = "High"

\* C5: candidateLevelBonus is 5 exactly for a fresher whose quality is not invalid
\* and who has projects and at least 5 unique skills; otherwise it is 0.
C5_BonusOnlyForStrongFreshers ==
    IsSome(adjustment) =>
        LET in == Get(adjustInput)
            out == Get(adjustment)
            deserved == /\ in.candidateLevel = "fresher"
                        /\ in.inputQuality.quality # "invalid"
                        /\ in.inputQuality.contentMetrics.hasProjects
                        /\ in.inputQuality.contentMetrics.uniqueSkillCount >= 5
        IN  /\ out.candidateLevelBonus \in {0, 5}
            /\ (out.candidateLevelBonus = 5) <=> deserved
            /\ in.candidateLevel \in {"junior", "mid", "senior"}
                  => out.candidateLevelBonus = 0

C5_Witness_BonusApplied ==
    /\ IsSome(adjustment)
    /\ Get(adjustment).candidateLevelBonus = 5
    /\ Get(adjustInput).inputQuality.contentMetrics.uniqueSkillCount = 5


\* What C6 says of one call of applyNormalizedWeights: same key set, the table's
\* weight (the tier's own when the table has none), the contribution recomputed,
\* the other fields copied and the argument left as it was.
C6_ApplyStep ==
    (normalizedScores = None /\ IsSome(normalizedScores')) =>
        LET in == Get(tierScores)
            out == Get(normalizedScores')
            table == getNormalizedWeights(Get(candidateLevel))
        IN  /\ DOMAIN out = DOMAIN in
            /\ \A key \in DOMAIN in :
                /\ out[key].weight =
                      (IF key \in TierNames THEN table[key] ELSE in[key].weight)
                /\ out[key].weighted_contribution[1] * 100 =
                      in[key].percentage * out[key].weight
                          * out[key].weighted_contribution[2]
                /\ out[key].percentage = in[key].percentage
                /\ out[key].score = in[key].score
                /\ out[key].max_score = in[key].max_score
                /\ DOMAIN out[key] = DOMAIN in[key]
            /\ tierScores' = tierScores

\* C6: applyNormalizedWeights returns a map over the input's keys with the
\* level's weights and percentage x weight / 100, copies the other fields and
\* never modifies its argument.
C6_WeightsAppliedPerTier == [][C6_ApplyStep]_vars

C6_Witness_KnownAndUnknownTier ==
    /\ IsSome(normalizedScores)
    /\ "custom_tier" \in DOMAIN Get(normalizedScores)
    /\ "experience" \in DOMAIN Get(normalizedScores)
    /\ Get(normalizedScores)["experience"].weight # Get(tierScores)["experience"].weight
    /\ Get(normalizedScores)["experience"].weighted_contribution[2] # 1

\* C7: triggerManualSync ends by returning {success, message}, never by
\* throwing; a missing or inactive configuration and every remote error give
\* success=false; 'apify-sync-jobs' is invoked at most once per call and only
\* after the lookup returned an active configuration; success=true only if that
\* invocation reported no error.
C7_SyncAlwaysReturnsResult ==
    \A c \in CallIds :
        LET call == calls[c]
            mine == {i \in DOMAIN invocations : invocations[i].call = c}
        IN  /\ (call.pc = "done") <=> IsSome(call.outcome)
            /\ Cardinality(mine) <= 1
            /\ \A i \in mine :
                /\ invocations[i].fn = "apify-sync-jobs"
                /\ IsSome(call.lookup)
                /\ ~Get(call.lookup).failed
                /\ IsSome(Get(call.lookup).data)
                /\ Get(Get(call.lookup).data).is_active
            /\ call.pc = "done" =>
                LET outcome == Get(call.outcome)
                    lookup == Get(call.lookup)
                IN  /\ ~outcome.threw
                    /\ IsSome(outcome.value)
                    /\ DOMAIN Get(outcome.value) = {"success", "message"}
                    /\ Get(outcome.value).success \in BOOLEAN
                    /\ (~lookup.failed /\ ~IsSome(lookup.data)) =>
                          Get(outcome.value) =
                              [success |-> FALSE, message |-> "Configuration not found"]
                    /\ (~lookup.failed /\ IsSome(lookup.data)
                           /\ ~Get(lookup.data).is_active) =>
                          Get(outcome.value) =
                              [success |-> FALSE, message |-> "Configuration is not active"]
                    /\ lookup.failed => ~Get(outcome.value).success
                    /\ (IsSome(call.invokeError) /\ IsSome(Get(call.invokeError))) =>
                          ~Get(outcome.value).success
                    /\ Get(outcome.value).success =>
                          /\ mine # {}
                          /\ call.invokeError = Some(None)

C7_Witness_SyncInitiated ==
    \E c \in CallIds :
        /\ calls[c].pc = "done"
        /\ Get(Get(calls[c].outcome).value).success
        /\ \E d \in CallIds :
            /\ calls[d].pc = "done"
            /\ Get(calls[d].lookup).failed

\* C8: valid=true exactly when the keyword list is non-empty and maxResults is
\* absent or within [1,1000]; every present maxResults outside [1,1000], 0 and
\* negative values included, gives valid=false with the range error; valid is
\* true exactly when there are no errors.
C8_ValidIffKeywordsAndRange ==
    IsSome(validation) =>
        LET config == Get(searchConfig)
            out == Get(validation)
            hasKeywords == IsSome(config.keywords) /\ Len(Get(config.keywords)) > 0
            inRange == ~IsSome(config.maxResults)
                       \/ Get(config.maxResults) \in 1..1000
        IN  /\ out.valid <=> (hasKeywords /\ inRange)
            /\ ~inRange =>
                  /\ ~out.valid
                  /\ "Max results must be between 1 and 1000" \in Range(out.errors)
            /\ out.valid <=> (out.errors = << >>)

\* The sum of a field over a set of rows, a missing value counted as 0.
RECURSIVE SumOfField(_, _)
SumOfField(rows, field) ==
    IF rows = {} THEN 0
    ELSE LET r == CHOOSE x \in rows : TRUE
         IN  (IF IsSome(r[field]) THEN Get(r[field]) ELSE 0)
             + SumOfField(rows \ {r}, field)

\* C9: for every table content and row order, getSyncStats reports the number of
\* rows, the numbers of success and failed rows, the sums of jobs_fetched and
\* jobs_created (missing counted as 0) and, as lastSyncDate, the created_at of
\* the most recent row (null without rows).
C9_StatsSummariseLogs ==
    IsSome(stats) =>
        LET rows == Range(Get(returnedRows))
            out == Get(stats)
        IN  /\ out.totalSyncs = Cardinality(rows)
            /\ out.successfulSyncs = Cardinality({r \in rows : r.status = "success"})
            /\ out.failedSyncs = Cardinality({r \in rows : r.status = "failed"})
            /\ out.successfulSyncs + out.failedSyncs <= out.totalSyncs
            /\ out.totalJobsFetched = SumOfField(rows, "jobs_fetched")
            /\ out.totalJobsCreated = SumOfField(rows, "jobs_created")
            /\ out.lastSyncDate =
                  (IF rows = {} THEN None
                   ELSE CHOOSE t \in {r.created_at : r \in rows} :
                           \A r \in rows : Get(r.created_at) <= Get(t))

\* C10: the match band and the interview probability split scores at the same
\* inclusive lower thresholds 15/25/.../85, every score gets exactly one band,
\* and the probability string is the one paired with the band of the same score.
C10_BandsShareThresholds ==
    LET bands == <<"Minimal Match", "Inadequate", "Very Poor", "Poor Match",
                   "Below Average", "Fair Match", "Good Match", "Very Good Match",
                   "Excellent Match">>
        ranges == <<"0-1%", "1-3%", "3-8%", "8-15%", "15-25%", "25-40%", "40-55%",
                    "55-70%", "70-85%">>
        rung(score) ==
            1 + Cardinality({t \in {15, 25, 35, 45, 55, 65, 75, 85} : score >= t})
    IN  /\ IsSome(matchBand) => Get(matchBand) = bands[rung(Get(bandScore))]
        /\ IsSome(interviewProbability) =>
              Get(interviewProbability) = ranges[rung(Get(bandScore))]
        /\ (IsSome(matchBand) /\ IsSome(interviewProbability)) =>
              \E i \in 1..9 : /\ bands[i] = Get(matchBand)
                              /\ ranges[i] = Get(interviewProbability)
        /\ (IsSome(matchBand) /\ Get(bandScore) = 44) => Get(matchBand) = "Poor Match"
        /\ (IsSome(matchBand) /\ Get(bandScore) = 85) => Get(matchBand) = "Excellent Match"

C10_Witness_BoundaryScore ==
    /\ bandScore = Some(45)
    /\ matchBand = Some("Below Average")
    /\ interviewProbability = Some("15-25%")


\* C11: on an empty text without structured resume data assessInputQuality
\* returns the degenerate result: no words, no sections, every presence flag
\* false, qualityScore 0, quality invalid, isValid false.
C11_EmptyInputIsInvalid ==
    (/\ IsSome(assessment)
     /\ Get(assessInput).resumeText = [fill |-> 0, marks |-> {}, bulletLines |-> 0]
     /\ Get(assessInput).resumeData = None) =>
        LET out == Get(assessment)
            m == out.contentMetrics
        IN  /\ m.wordCount = 0
            /\ m.sectionCount = 0
            /\ ~m.hasContactInfo /\ ~m.hasSkills /\ ~m.hasEducation
            /\ ~m.hasExperience /\ ~m.hasProjects
            /\ out.qualityScore = 0
            /\ out.quality = "invalid"
            /\ out.isValid = FALSE

C11_Witness_EmptyAssessed ==
    /\ IsSome(assessment)
    /\ Get(assessInput).resumeText = [fill |-> 0, marks |-> {}, bulletLines |-> 0]
    /\ Get(assessInput).resumeData = None
    /\ Get(assessment).quality = "invalid"


\* Some entry of the structured field carries a non-empty list under key.
HasFilledEntry(resumeData, field, key) ==
    /\ IsSome(resumeData)
    /\ IsSome(Get(resumeData)[field])
    /\ \E i \in DOMAIN Get(Get(resumeData)[field]) :
          LET e == Get(Get(resumeData)[field])[i]
          IN  IsSome(e[key]) /\ Len(Get(e[key])) > 0

\* C12: the skills, experience and projects flags are true when the structured
\* field has an entry with a non-empty list (skills) or bullet list
\* (experience, projects); in every other case, a structured field holding only
\* empty lists included, each flag equals the detection on the raw text.
C12_FlagsFallBackToText ==
    IsSome(assessment) =>
        LET text == Get(assessInput).resumeText
            data == Get(assessInput).resumeData
            m == Get(assessment).contentMetrics
            skillsInText == ({"SKILLS"} \cap text.marks # {})
                               \/ ({"python", "javascript"} \cap text.marks # {})
            experienceInText == "EXPERIENCE" \in text.marks /\ "developed" \in text.marks
            projectsInText == "PROJECTS" \in text.marks
        IN  /\ m.hasSkills =
                  (IF HasFilledEntry(data, "skills", "list") THEN TRUE ELSE skillsInText)
            /\ m.hasExperience =
                  (IF HasFilledEntry(data, "workExperience", "bullets") THEN TRUE
                   ELSE experienceInText)
            /\ m.hasProjects =
                  (IF HasFilledEntry(data, "projects", "bullets") THEN TRUE
                   ELSE projectsInText)


\* The sum of f[k] over the keys k.
RECURSIVE SumOver(_, _)
SumOver(f, keys) ==
    IF keys = {} THEN 0
    ELSE LET k == CHOOSE x \in keys : TRUE
         IN  f[k] + SumOver(f, keys \ {k})

\* The weighted contributions of a result, in hundredths.
ContributionHundredths(result) ==
    [key \in DOMAIN result |->
        (result[key].weighted_contribution[1] * 100)
            \div result[key].weighted_contribution[2]]

\* C13: for every candidate level the weight table has exactly the ten tier
\* names, non-negative integer weights and the sum 100; the fresher table gives
\* experience the weight 0; an unrecognized level gets the senior table; and when
\* all ten tiers are given with percentages in 0..100 the weighted contributions
\* of the result sum to a value in 0..100.
C13_WeightsSumToHundred ==
    IsSome(candidateLevel) =>
        LET level == Get(candidateLevel)
            weights == getNormalizedWeights(level)
        IN  /\ DOMAIN weights = TierNames
            /\ \A key \in TierNames : weights[key] \in Nat
            /\ SumOver(weights, TierNames) = 100
            /\ level = "fresher" => weights.experience = 0
            /\ level \notin {"fresher", "junior", "mid", "senior"} =>
                  weights = getNormalizedWeights("senior")
            /\ (/\ IsSome(normalizedScores)
                /\ DOMAIN Get(tierScores) = TierNames
                /\ \A key \in TierNames : Get(tierScores)[key].percentage \in 0..100) =>
                  LET result == Get(normalizedScores)
                      hundredths == SumOver(ContributionHundredths(result), TierNames)
                  IN  /\ DOMAIN result = TierNames
                      /\ \A key \in TierNames :
                            result[key].weighted_contribution[2] \in {1, 2, 4, 5, 10, 20, 25, 50, 100}
                      /\ hundredths >= 0
                      /\ hundredths <= 100 * 100

C13_Witness_AllTiersFullMarks ==
    /\ IsSome(normalizedScores)
    /\ Get(candidateLevel) = "fresher"
    /\ DOMAIN Get(normalizedScores) = TierNames
    /\ \A key \in TierNames : Get(tierScores)[key].percentage = 100
    /\ SumOver(ContributionHundredths(Get(normalizedScores)), TierNames) = 100 * 100


\* Low < Medium < High
ConfidenceRank(level) ==
    CASE level = "Low" -> 0
      [] level = "Medium" -> 1
      [] level = "High" -> 2

\* The match bands from the lowest to the highest.
BandRank(band) ==
    CASE band = "Minimal Match" -> 0
      [] band = "Inadequate" -> 1
      [] band = "Very Poor" -> 2
      [] band = "Poor Match" -> 3
      [] band = "Below Average" -> 4
      [] band = "Fair Match" -> 5
      [] band = "Good Match" -> 6
      [] band = "Very Good Match" -> 7
      [] band = "Excellent Match" -> 8

\* The result of a call is not lower than the result the same function gives,
\* with the other arguments unchanged, for a lower score: for the next lower base
\* score (half a point down, which gives every lower one by transitivity) in
\* calculateAdjustedScore, for every lower score in the other two functions.
OutputsMonotoneInScore ==
    /\ IsSome(adjustment) =>
          LET in == Get(adjustInput)
              lower == Quotient(in.baseScore[1] * (2 \div in.baseScore[2]) - 1, 2)
          IN  lower \in BaseScores =>
                 calculateAdjustedScore(lower, in.inputQuality,
                                        in.candidateLevel).finalScore
                    <= Get(adjustment).finalScore
    /\ IsSome(confidence) =>
          LET in == Get(confInput)
          IN  \A lower \in Scores :
                 lower <= in.score =>
                    ConfidenceRank(calculateAlignedConfidence(
                                       lower, in.inputQuality, in.hasJD).level)
                       <= ConfidenceRank(Get(confidence).level)
    /\ IsSome(matchBand) =>
          \A lower \in Scores :
             lower <= Get(bandScore) =>
                BandRank(getAlignedMatchBand(lower)) <= BandRank(Get(matchBand))

\* The call of calculateAdjustedScore is for a candidate who is not a fresher and
\* a base score in [0,100].
NonFresherInRange ==
    /\ IsSome(adjustment)
    /\ Get(adjustInput).candidateLevel # "fresher"
    /\ Get(adjustInput).baseScore[1] >= 0
    /\ Get(adjustInput).baseScore[1] <= 100 * Get(adjustInput).baseScore[2]

\* C14: with the other arguments fixed a higher score never gives a lower
\* finalScore, confidence level or match band; and for a candidate who is not a
\* fresher and a base score in [0,100] the finalScore never exceeds the base
\* score rounded to the nearest integer, a half going up.
C14_MonotoneAndBoundedByRoundedBase ==
    /\ OutputsMonotoneInScore
    /\ NonFresherInRange =>
          LET base == Get(adjustInput).baseScore
          IN  Get(adjustment).finalScore <= (2 * base[1] + base[2]) \div (2 * base[2])

\* C14 as stated: monotone outputs, and for a candidate who is not a fresher and a
\* base score in [0,100] the finalScore never exceeds the base score itself.
C14_MonotoneAndBoundedByBase ==
    /\ OutputsMonotoneInScore
    /\ NonFresherInRange =>
          LET base == Get(adjustInput).baseScore
          IN  Get(adjustment).finalScore * base[2] <= base[1]

C14_Witness_ReducedScore ==
    /\ NonFresherInRange
    /\ Get(adjustInput).baseScore = <<50, 1>>
    /\ Get(adjustInput).inputQuality.quality = "poor"
    /\ Get(adjustment).finalScore = 35

====
